---- MODULE Spec2Model ----
(***************************************************************************)
(* A model of snappwd-cli: the base-58 codec, the AES-GCM envelope         *)
(* functions and the SnapPwdApi client of src/src/crypto.ts, and the       *)
(* commands put, put-file, peek and get of the CLI entry point             *)
(* (src/unnamed/part_002).                                                 *)
(*                                                                         *)
(* Text is a sequence of character codes (ASCII / UTF-16 code units),      *)
(* binary data a sequence of bytes 0..255.                                 *)
(***************************************************************************)
EXTENDS Integers, Sequences, FiniteSets, TLC

VARIABLES codec, seal, cli

vars == <<codec, seal, cli>>

(***************************************************************************)
(* Bounds of the model.                                                    *)
(***************************************************************************)
\* longest byte sequence given to the codec
MaxBytesLen == 3

\* byte values the inputs are drawn from: zero, the smallest digit, the
\* neighbourhood of the radix 58, and the largest byte
ByteVals == {0, 1, 57, 58, 255}

ByteSeqsOfLen(n) == [1..n -> ByteVals]

ByteSeqs == UNION {ByteSeqsOfLen(n) : n \in 0..MaxBytesLen}

(***************************************************************************)
(* Generic helpers on sequences.                                           *)
(***************************************************************************)
Reverse(s) == [i \in 1..Len(s) |-> s[Len(s) + 1 - i]]

Repeat(x, n) == [i \in 1..n |-> x]

\* the number of leading elements of s equal to x
LeadingCount(s, x) ==
    CHOOSE n \in 0..Len(s) :
        /\ \A i \in 1..n : s[i] = x
        /\ n = Len(s) \/ s[n + 1] # x

\* s.slice(from) / s.slice(from, to) with 0-based, end-exclusive indices
Slice(s, from, to) ==
    LET lo == IF from > Len(s) THEN Len(s) ELSE from
        hi == IF to > Len(s) THEN Len(s) ELSE to
    IN  IF hi <= lo THEN <<>> ELSE [i \in 1..(hi - lo) |-> s[lo + i]]

StartsWith(s, p) == Len(s) >= Len(p) /\ Slice(s, 0, Len(p)) = p

\* p occurs in s as a contiguous run of characters
Contains(s, p) ==
    \E k \in 0..(Len(s) - Len(p)) : Slice(s, k, k + Len(p)) = p

(***************************************************************************)
(* base-58 codec                                                           *)
(***************************************************************************)
\* "123456789ABCDEFGHJKLMNPQRSTUVWXYZabcdefghijkmnopqrstuvwxyz"
BASE58_ALPHABET ==
    <<49, 50, 51, 52, 53, 54, 55, 56, 57,
      65, 66, 67, 68, 69, 70, 71, 72,
      74, 75, 76, 77, 78,
      80, 81, 82, 83, 84, 85, 86, 87, 88, 89, 90,
      97, 98, 99, 100, 101, 102, 103, 104, 105, 106, 107,
      109, 110, 111, 112, 113, 114, 115, 116, 117, 118, 119, 120, 121, 122>>

\* the lookup table from a character to its value, the 0-based index of the
\* character in the alphabet
BASE58_MAP ==
    [c \in {BASE58_ALPHABET[i] : i \in 1..Len(BASE58_ALPHABET)} |->
        (CHOOSE i \in 1..Len(BASE58_ALPHABET) : BASE58_ALPHABET[i] = c) - 1]

\* BASE58_MAP[ch]; -1 stands for undefined (ch is no key of the table)
Base58Value(ch) == IF ch \in DOMAIN BASE58_MAP THEN BASE58_MAP[ch] ELSE -1

(* The loops of the codec are folds over an index range. A range is folded  *)
(* by halves, the left half evaluated before the right one is entered,     *)
(* which visits the indices in the loop's order and keeps the evaluation   *)
(* shallow.                                                                *)
Evaluated(v) == v = v

\* one pass of the inner loop of base58Encode, on st = [digits, carry]:
\*   carry += digits[i] << 8; digits[i] = carry % 58; carry = (carry / 58) | 0
EncodeStep(st, i) ==
    LET c == st.carry + st.digits[i] * 256
    IN  [digits |-> [st.digits EXCEPT ![i] = c % 58], carry |-> c \div 58]

\* for (let i = lo; i <= hi; i++) EncodeStep; digits are little-endian
RECURSIVE EncodeCarry(_, _, _)
EncodeCarry(st, lo, hi) ==
    IF lo > hi THEN st
    ELSE IF lo = hi THEN EncodeStep(st, lo)
    ELSE LET mid == (lo + hi) \div 2
             left == EncodeCarry(st, lo, mid)
         IN  IF Evaluated(left) THEN EncodeCarry(left, mid + 1, hi) ELSE left

\* while (carry > 0) { digits.push(carry % 58); carry = (carry / 58) | 0 }
RECURSIVE EncodePush(_, _)
EncodePush(digits, carry) ==
    IF carry > 0 THEN EncodePush(Append(digits, carry % 58), carry \div 58)
    ELSE digits

\* the body of the outer loop of base58Encode for one input byte
EncodeByte(digits, byte) ==
    LET r == EncodeCarry([digits |-> digits, carry |-> byte], 1, Len(digits))
    IN  EncodePush(r.digits, r.carry)

\* the outer loop of base58Encode over bytes[lo..hi]
RECURSIVE EncodeDigits(_, _, _, _)
EncodeDigits(bytes, lo, hi, digits) ==
    IF lo > hi THEN digits
    ELSE IF lo = hi THEN EncodeByte(digits, bytes[lo])
    ELSE LET mid == (lo + hi) \div 2
             left == EncodeDigits(bytes, lo, mid, digits)
         IN  IF Evaluated(left) THEN EncodeDigits(bytes, mid + 1, hi, left) ELSE left

base58Encode(bytes) ==
    LET digits == EncodeDigits(bytes, 1, Len(bytes), <<0>>)
        zeros  == LeadingCount(bytes, 0)
        msf    == Reverse(digits)
    IN  Repeat(BASE58_ALPHABET[1], zeros)
          \o [i \in 1..Len(msf) |-> BASE58_ALPHABET[msf[i] + 1]]

\* one pass of the inner loop of base58Decode, on st = [bytes, carry]:
\*   carry += bytes[i] * 58; bytes[i] = carry & 0xff; carry >>= 8
DecodeStep(st, i) ==
    LET c == st.carry + st.bytes[i] * 58
    IN  [bytes |-> [st.bytes EXCEPT ![i] = c % 256], carry |-> c \div 256]

RECURSIVE DecodeCarry(_, _, _)
DecodeCarry(st, lo, hi) ==
    IF lo > hi THEN st
    ELSE IF lo = hi THEN DecodeStep(st, lo)
    ELSE LET mid == (lo + hi) \div 2
             left == DecodeCarry(st, lo, mid)
         IN  IF Evaluated(left) THEN DecodeCarry(left, mid + 1, hi) ELSE left

\* while (carry > 0) { bytes.push(carry & 0xff); carry >>= 8 }
RECURSIVE DecodePush(_, _)
DecodePush(bytes, carry) ==
    IF carry > 0 THEN DecodePush(Append(bytes, carry % 256), carry \div 256)
    ELSE bytes

\* the body of the outer loop of base58Decode for one character, on
\* st = [thrown, bytes]; thrown is set, for good, when the character is not
\* in BASE58_MAP (throw new Error("Invalid base58 character"))
DecodeChar(st, ch) ==
    LET value == Base58Value(ch)
    IN  IF st.thrown \/ value = -1 THEN [thrown |-> TRUE, bytes |-> <<>>]
        ELSE LET r == DecodeCarry([bytes |-> st.bytes, carry |-> value],
                                  1, Len(st.bytes))
             IN  [thrown |-> FALSE, bytes |-> DecodePush(r.bytes, r.carry)]

\* the outer loop of base58Decode over str[lo..hi]
RECURSIVE DecodeBytes(_, _, _, _)
DecodeBytes(str, lo, hi, st) ==
    IF lo > hi THEN st
    ELSE IF lo = hi THEN DecodeChar(st, str[lo])
    ELSE LET mid == (lo + hi) \div 2
             left == DecodeBytes(str, lo, mid, st)
         IN  IF Evaluated(left) THEN DecodeBytes(str, mid + 1, hi, left) ELSE left

\* the result of a call: err = "" and the value, or the error thrown
Ok(v) == [err |-> "", val |-> v]

Err(e) == [err |-> e, val |-> <<>>]

base58Decode(str) ==
    LET r == DecodeBytes(str, 1, Len(str), [thrown |-> FALSE, bytes |-> <<0>>])
    IN  IF r.thrown THEN Err("Invalid base58 character")
        ELSE LET leadingOnes == LeadingCount(str, BASE58_ALPHABET[1])
             IN  Ok(Repeat(0, leadingOnes) \o Reverse(r.bytes))

(***************************************************************************)
(* TextEncoder / TextDecoder (UTF-8) and Buffer's base64                   *)
(***************************************************************************)
IsHighSurrogate(u) == u >= 55296 /\ u <= 56319

IsLowSurrogate(u) == u >= 56320 /\ u <= 57343

\* the UTF-8 bytes of one code point
Utf8Bytes(cp) ==
    IF cp < 128 THEN <<cp>>
    ELSE IF cp < 2048 THEN <<192 + (cp \div 64), 128 + (cp % 64)>>
    ELSE IF cp < 65536
         THEN <<224 + (cp \div 4096), 128 + ((cp \div 64) % 64), 128 + (cp % 64)>>
    ELSE <<240 + (cp \div 262144), 128 + ((cp \div 4096) % 64),
           128 + ((cp \div 64) % 64), 128 + (cp % 64)>>

\* new TextEncoder().encode(str): a surrogate pair is one code point, an
\* unpaired surrogate is replaced by U+FFFD
RECURSIVE TextEncode(_)
TextEncode(str) ==
    IF str = <<>> THEN <<>>
    ELSE LET u == Head(str)
             rest == Tail(str)
         IN  IF IsHighSurrogate(u) /\ rest # <<>> /\ IsLowSurrogate(Head(rest))
             THEN Utf8Bytes(65536 + (u - 55296) * 1024 + (Head(rest) - 56320))
                    \o TextEncode(Tail(rest))
             ELSE IF IsHighSurrogate(u) \/ IsLowSurrogate(u)
             THEN Utf8Bytes(65533) \o TextEncode(rest)
             ELSE Utf8Bytes(u) \o TextEncode(rest)

\* the UTF-16 code units of one code point
Utf16Units(cp) ==
    IF cp < 65536 THEN <<cp>>
    ELSE <<55296 + ((cp - 65536) \div 1024), 56320 + ((cp - 65536) % 1024)>>

\* the decoder's state between sequences
Utf8Start == [cp |-> 0, seen |-> 0, needed |-> 0, lower |-> 128, upper |-> 191]

\* the WHATWG UTF-8 decoder over bytes[i..], in state st; an ill-formed
\* sequence gives U+FFFD and the offending byte is looked at again
RECURSIVE Utf8Decode(_, _, _)
Utf8Decode(bytes, i, st) ==
    IF i > Len(bytes) THEN (IF st.needed # 0 THEN <<65533>> ELSE <<>>)
    ELSE LET b == bytes[i] IN
         IF st.needed = 0 THEN
            IF b <= 127 THEN <<b>> \o Utf8Decode(bytes, i + 1, Utf8Start)
            ELSE IF b >= 194 /\ b <= 223
                 THEN Utf8Decode(bytes, i + 1,
                        [Utf8Start EXCEPT !.needed = 1, !.cp = b % 32])
            ELSE IF b >= 224 /\ b <= 239
                 THEN Utf8Decode(bytes, i + 1,
                        [Utf8Start EXCEPT !.needed = 2, !.cp = b % 16,
                            !.lower = IF b = 224 THEN 160 ELSE 128,
                            !.upper = IF b = 237 THEN 159 ELSE 191])
            ELSE IF b >= 240 /\ b <= 244
                 THEN Utf8Decode(bytes, i + 1,
                        [Utf8Start EXCEPT !.needed = 3, !.cp = b % 8,
                            !.lower = IF b = 240 THEN 144 ELSE 128,
                            !.upper = IF b = 244 THEN 143 ELSE 191])
            ELSE <<65533>> \o Utf8Decode(bytes, i + 1, Utf8Start)
         ELSE IF b < st.lower \/ b > st.upper
              THEN <<65533>> \o Utf8Decode(bytes, i, Utf8Start)
         ELSE LET cp == st.cp * 64 + (b % 64)
              IN  IF st.seen + 1 = st.needed
                  THEN Utf16Units(cp) \o Utf8Decode(bytes, i + 1, Utf8Start)
                  ELSE Utf8Decode(bytes, i + 1,
                         [st EXCEPT !.cp = cp, !.seen = st.seen + 1,
                                    !.lower = 128, !.upper = 191])

\* new TextDecoder().decode(bytes): ignoreBOM is false by default, so a leading
\* byte order mark U+FEFF is dropped
TextDecode(bytes) ==
    LET units == Utf8Decode(bytes, 1, Utf8Start)
    IN  IF units # <<>> /\ Head(units) = 65279 THEN Tail(units) ELSE units

\* the base64 character of a 6-bit value: A-Z a-z 0-9 + /
B64Char(v) ==
    IF v < 26 THEN 65 + v
    ELSE IF v < 52 THEN 97 + (v - 26)
    ELSE IF v < 62 THEN 48 + (v - 52)
    ELSE IF v = 62 THEN 43 ELSE 47

\* the 6-bit value of a character, -1 for a character that is none
\* ('-' and '_' of the URL-safe alphabet are accepted)
B64Value(c) ==
    IF c >= 65 /\ c <= 90 THEN c - 65
    ELSE IF c >= 97 /\ c <= 122 THEN c - 97 + 26
    ELSE IF c >= 48 /\ c <= 57 THEN c - 48 + 52
    ELSE IF c = 43 \/ c = 45 THEN 62
    ELSE IF c = 47 \/ c = 95 THEN 63
    ELSE -1

\* Buffer.from(bytes).toString('base64'): the k-th character (from 0) comes
\* from the group of three bytes k \div 4; a group cut short is padded with '='
Base64Encode(bytes) ==
    LET n == Len(bytes)
        at(j) == IF j <= n THEN bytes[j] ELSE 0
    IN  [k \in 1..(4 * ((n + 2) \div 3)) |->
            LET g  == 3 * ((k - 1) \div 4)
                b1 == at(g + 1)
                b2 == at(g + 2)
                b3 == at(g + 3)
            IN  CASE (k - 1) % 4 = 0 -> B64Char(b1 \div 4)
                  [] (k - 1) % 4 = 1 -> B64Char((b1 % 4) * 16 + (b2 \div 16))
                  [] (k - 1) % 4 = 2 ->
                        IF g + 2 > n THEN 61
                        ELSE B64Char((b2 % 16) * 4 + (b3 \div 64))
                  [] OTHER -> IF g + 3 > n THEN 61 ELSE B64Char(b3 % 64)]

IsB64Char(c) == B64Value(c) # -1

\* the 6-bit values of the text up to the first '=', other characters skipped
B64Values(str) ==
    LET cut  == CHOOSE n \in 0..Len(str) :
                   /\ \A i \in 1..n : str[i] # 61
                   /\ n = Len(str) \/ str[n + 1] = 61
        kept == SelectSeq(Slice(str, 0, cut), IsB64Char)
    IN  [i \in 1..Len(kept) |-> B64Value(kept[i])]

\* four values give three bytes; two or three left over give one or two
B64Bytes(v) ==
    LET m == Len(v)
        n == 3 * (m \div 4) + (IF m % 4 = 0 THEN 0 ELSE (m % 4) - 1)
    IN  [j \in 1..n |->
            LET g == 4 * ((j - 1) \div 3)
            IN  CASE (j - 1) % 3 = 0 -> v[g + 1] * 4 + (v[g + 2] \div 16)
                  [] (j - 1) % 3 = 1 -> (v[g + 2] % 16) * 16 + (v[g + 3] \div 4)
                  [] OTHER -> (v[g + 3] % 4) * 64 + v[g + 4]]

\* Buffer.from(str, 'base64')
Base64Decode(str) == B64Bytes(B64Values(str))

(***************************************************************************)
(* Web Crypto: importKey and AES-GCM                                       *)
(*                                                                         *)
(* AES-GCM is modelled by its structure: a stream cipher keyed by (key,    *)
(* iv) over the plaintext, followed by a tag of TagLength bytes computed   *)
(* from (key, iv, ciphertext) that decryption verifies before it returns   *)
(* anything. The stream and the tag are checksums, chosen so that the keys *)
(* and nonces of the model give different tags, as GCM's do.               *)
(***************************************************************************)
\* new Uint8Array(16) in generateEncryptionKey
KeyBytes == 16

\* new Uint8Array(12) for the iv, and slice(0, 12) / slice(12)
IvLength == 12

\* the tag length of { name: "AES-GCM" } when none is given: 128 bits
TagLength == 16

\* the raw key lengths importKey accepts for AES: 128, 192 and 256 bits
AesKeyLengths == {16, 24, 32}

\* importKey without the check of the key's length
importKey_anyLength(keyData) == Ok(keyData)

\* crypto.subtle.importKey("raw", keyData, { name: "AES-GCM" }, ...)
importKey(keyData) ==
    IF Len(keyData) \in AesKeyLengths THEN Ok(keyData)
    ELSE Err("Invalid key length")

\* the sum of s[lo..hi]
RECURSIVE SumRange(_, _, _)
SumRange(s, lo, hi) ==
    IF lo > hi THEN 0
    ELSE IF lo = hi THEN s[lo]
    ELSE LET mid == (lo + hi) \div 2
         IN  SumRange(s, lo, mid) + SumRange(s, mid + 1, hi)

Sum(s) == SumRange(s, 1, Len(s))

GcmStream(K, iv, i) ==
    (K[((i - 1) % Len(K)) + 1] + iv[((i - 1) % Len(iv)) + 1] + i) % 256

GcmTag(K, iv, ct) ==
    [j \in 1..TagLength |->
        (K[((j - 1) % Len(K)) + 1]
           + (IF j + TagLength <= Len(K) THEN 3 * K[j + TagLength] ELSE 0)
           + 5 * iv[((j - 1) % Len(iv)) + 1]
           + Sum(ct) + 7 * Len(ct) + Len(K)) % 256]

\* crypto.subtle.encrypt({ name: "AES-GCM", iv }, cryptoKey, data):
\* the ciphertext with the tag appended
AesGcmEncrypt(K, iv, pt) ==
    LET ct == [i \in 1..Len(pt) |-> (pt[i] + GcmStream(K, iv, i)) % 256]
    IN  ct \o GcmTag(K, iv, ct)

\* crypto.subtle.decrypt({ name: "AES-GCM", iv }, cryptoKey, data): rejects
\* with an OperationError unless the tag verifies
AesGcmDecrypt(K, iv, data) ==
    IF Len(iv) = 0 \/ Len(data) < TagLength THEN Err("OperationError")
    ELSE LET ct  == Slice(data, 0, Len(data) - TagLength)
             tag == Slice(data, Len(data) - TagLength, Len(data))
         IN  IF tag # GcmTag(K, iv, ct) THEN Err("OperationError")
             ELSE Ok([i \in 1..Len(ct) |->
                        (ct[i] + 256 - GcmStream(K, iv, i)) % 256])

(***************************************************************************)
(* crypto.ts: keys and envelopes                                           *)
(*                                                                         *)
(* A call's result is [err, val, aead, ...]: err is "" or the error the    *)
(* call throws, aead tells whether subtle.encrypt / subtle.decrypt was     *)
(* called. The random bytes a call draws are a parameter.                  *)
(***************************************************************************)
Thrown(e) == [err |-> e, val |-> <<>>, aead |-> FALSE, iv |-> <<>>, data |-> <<>>]

\* the result before any call
NoResult == Thrown("not called")

\* generateEncryptionKey encoding one byte too few
generateEncryptionKey_short(array) == base58Encode(Slice(array, 0, Len(array) - 1))

\* array: what crypto.getRandomValues wrote into the 16-byte array
generateEncryptionKey(array) == base58Encode(array)

\* encryptData with a constant nonce in place of the random one
encryptData_fixedNonce(plaintext, key, iv) ==
    LET keyData == base58Decode(key)
    IN  IF keyData.err # "" THEN Thrown(keyData.err)
        ELSE LET cryptoKey == importKey(keyData.val)
             IN  IF cryptoKey.err # "" THEN Thrown(cryptoKey.err)
                 ELSE LET fixed         == Repeat(0, IvLength)
                          encodedData   == TextEncode(plaintext)
                          encryptedData == AesGcmEncrypt(cryptoKey.val, fixed, encodedData)
                          result        == fixed \o encryptedData
                      IN  [err |-> "", val |-> Base64Encode(result), aead |-> TRUE,
                           iv |-> fixed, data |-> encryptedData]

\* encryptData writing a version byte before the nonce: 1 for a 16-byte key,
\* 2 otherwise
encryptData_versioned(plaintext, key, iv) ==
    LET keyData == base58Decode(key)
    IN  IF keyData.err # "" THEN Thrown(keyData.err)
        ELSE LET cryptoKey == importKey(keyData.val)
             IN  IF cryptoKey.err # "" THEN Thrown(cryptoKey.err)
                 ELSE LET encodedData   == TextEncode(plaintext)
                          encryptedData == AesGcmEncrypt(cryptoKey.val, iv, encodedData)
                          version       == IF Len(keyData.val) = 16 THEN 1 ELSE 2
                          result        == <<version>> \o iv \o encryptedData
                      IN  [err |-> "", val |-> Base64Encode(result), aead |-> TRUE,
                           iv |-> iv, data |-> encryptedData]

\* iv: what crypto.getRandomValues wrote into the 12-byte array
encryptData(plaintext, key, iv) ==
    LET keyData == base58Decode(key)
    IN  IF keyData.err # "" THEN Thrown(keyData.err)
        ELSE LET cryptoKey == importKey(keyData.val)
             IN  IF cryptoKey.err # "" THEN Thrown(cryptoKey.err)
                 ELSE LET encodedData   == TextEncode(plaintext)
                          encryptedData == AesGcmEncrypt(cryptoKey.val, iv, encodedData)
                          result        == iv \o encryptedData
                      IN  [err |-> "", val |-> Base64Encode(result), aead |-> TRUE,
                           iv |-> iv, data |-> encryptedData]

\* decryptData taking the layout from the first byte: versioned for 1 and 2
decryptData_versioned(encryptedBase64, key) ==
    LET keyData == base58Decode(key)
    IN  IF keyData.err # "" THEN Thrown(keyData.err)
        ELSE LET cryptoKey == importKey(keyData.val)
             IN  IF cryptoKey.err # "" THEN Thrown(cryptoKey.err)
                 ELSE LET encryptedData == Base64Decode(encryptedBase64)
                          off           == IF encryptedData # <<>> /\ encryptedData[1] \in {1, 2}
                                           THEN 1 ELSE 0
                          iv            == Slice(encryptedData, off, off + IvLength)
                          data          == Slice(encryptedData, off + IvLength, Len(encryptedData))
                          decryptedData == AesGcmDecrypt(cryptoKey.val, iv, data)
                      IN  IF decryptedData.err # ""
                          THEN [err |-> decryptedData.err, val |-> <<>>, aead |-> TRUE,
                                iv |-> iv, data |-> data]
                          ELSE [err |-> "", val |-> TextDecode(decryptedData.val),
                                aead |-> TRUE, iv |-> iv, data |-> data]

\* decryptData with a cipher that does not authenticate: the stream is
\* removed and the tag ignored
decryptData_unauthenticated(encryptedBase64, key) ==
    LET keyData == base58Decode(key)
    IN  IF keyData.err # "" THEN Thrown(keyData.err)
        ELSE LET cryptoKey == importKey(keyData.val)
             IN  IF cryptoKey.err # "" THEN Thrown(cryptoKey.err)
                 ELSE LET encryptedData == Base64Decode(encryptedBase64)
                          iv            == Slice(encryptedData, 0, IvLength)
                          data          == Slice(encryptedData, IvLength, Len(encryptedData))
                          ct            == Slice(data, 0, Len(data) - TagLength)
                          pt            == [i \in 1..Len(ct) |->
                                              (ct[i] + 256 - GcmStream(cryptoKey.val, iv, i)) % 256]
                      IN  [err |-> "", val |-> TextDecode(pt), aead |-> TRUE,
                           iv |-> iv, data |-> data]

decryptData(encryptedBase64, key) ==
    LET keyData == base58Decode(key)
    IN  IF keyData.err # "" THEN Thrown(keyData.err)
        ELSE LET cryptoKey == importKey(keyData.val)
             IN  IF cryptoKey.err # "" THEN Thrown(cryptoKey.err)
                 ELSE LET encryptedData == Base64Decode(encryptedBase64)
                          iv            == Slice(encryptedData, 0, IvLength)
                          data          == Slice(encryptedData, IvLength, Len(encryptedData))
                          decryptedData == AesGcmDecrypt(cryptoKey.val, iv, data)
                      IN  IF decryptedData.err # ""
                          THEN [err |-> decryptedData.err, val |-> <<>>, aead |-> TRUE,
                                iv |-> iv, data |-> data]
                          ELSE [err |-> "", val |-> TextDecode(decryptedData.val),
                                aead |-> TRUE, iv |-> iv, data |-> data]

\* returns { iv, encryptedData }: the fields iv and data of the result
encryptFileBuffer(buffer, key, iv) ==
    LET keyData == base58Decode(key)
    IN  IF keyData.err # "" THEN Thrown(keyData.err)
        ELSE LET cryptoKey == importKey(keyData.val)
             IN  IF cryptoKey.err # "" THEN Thrown(cryptoKey.err)
                 ELSE [err |-> "", val |-> <<>>, aead |-> TRUE, iv |-> iv,
                       data |-> AesGcmEncrypt(cryptoKey.val, iv, buffer)]

decryptFileBuffer(iv, encryptedData, key) ==
    LET keyData == base58Decode(key)
    IN  IF keyData.err # "" THEN Thrown(keyData.err)
        ELSE LET cryptoKey == importKey(keyData.val)
             IN  IF cryptoKey.err # "" THEN Thrown(cryptoKey.err)
                 ELSE LET decryptedData == AesGcmDecrypt(cryptoKey.val, iv, encryptedData)
                      IN  [err |-> decryptedData.err, val |-> decryptedData.val,
                           aead |-> TRUE, iv |-> iv, data |-> encryptedData]

(***************************************************************************)
(* The codec on its own: a byte sequence is encoded and the text decoded   *)
(* again, or a given text is decoded.                                      *)
(***************************************************************************)
\* longest text given to base58Decode directly
MaxTextLen == 3

\* '1', '2', 'z' of the alphabet, and '0' and 'l', which it leaves out
TextChars == {49, 50, 122, 48, 108}

CodecTexts == UNION {[1..n -> TextChars] : n \in 0..MaxTextLen}

Idle == [pc |-> "idle"]

CodecInit ==
    /\ codec \in {[pc |-> "bytes", bytes |-> b, text |-> <<>>, out |-> Ok(<<>>)] :
                     b \in ByteSeqs}
                 \cup {[pc |-> "text", bytes |-> <<>>, text |-> t, out |-> Ok(<<>>)] :
                          t \in CodecTexts}
    /\ seal = Idle
    /\ cli = Idle

CodecEncode ==
    /\ codec.pc = "bytes"
    /\ codec' = [codec EXCEPT !.pc = "encoded", !.text = base58Encode(codec.bytes)]
    /\ UNCHANGED <<seal, cli>>

CodecDecode ==
    /\ codec.pc \in {"encoded", "text"}
    /\ codec' = [codec EXCEPT
                    !.pc = IF codec.pc = "encoded" THEN "roundtrip" ELSE "decoded",
                    !.out = base58Decode(codec.text)]
    /\ UNCHANGED <<seal, cli>>

CodecNext == CodecEncode \/ CodecDecode

SpecCodec == CodecInit /\ [][CodecNext]_vars

(***************************************************************************)
(* Keys and envelopes: a key is generated or given, a text or a file is    *)
(* encrypted under it, and the result is decrypted with that key or with   *)
(* another one.                                                            *)
(***************************************************************************)
\* the bytes the random source may write into the key array: any number of
\* leading zero bytes, then 1 and 255 in turn
RandomKeyArrays ==
    {[i \in 1..KeyBytes |-> IF i <= z THEN 0 ELSE IF i % 2 = 0 THEN 255 ELSE 1] :
        z \in 0..KeyBytes}

\* the bytes the random source may write into the iv array; the first byte
\* takes the values 1 and 2 among others
IvHeads == {1, 2, 200}

RandomIvs == {[i \in 1..IvLength |-> IF i = 1 THEN h ELSE 7] : h \in IvHeads}

\* longest plaintext, in UTF-16 code units
MaxPlainLen == 2

\* 'a', the byte order mark U+FEFF, and the high surrogate of U+1F600
PlainUnits == {97, 65279, 55357}

Plaintexts == UNION {[1..n -> PlainUnits] : n \in 0..MaxPlainLen}

FileBuffers == {<<>>, <<0>>, <<239, 187, 191>>, <<255, 1>>}

\* key texts a caller may hand in: the encodings of 16, 17, 24 and 32 bytes,
\* fifteen '1's (16 zero bytes once decoded), the empty text, and a text
\* with the character '0'
GivenKeys ==
    { base58Encode(Repeat(255, 16)), base58Encode(Repeat(9, 17)),
      base58Encode(Repeat(9, 24)), base58Encode(Repeat(9, 32)),
      Repeat(49, 15), <<>>, <<50, 48, 50>> }

SealStart ==
    [pc |-> "start", key |-> <<>>, src |-> "", array |-> <<>>, plain |-> <<>>,
     kind |-> "", enc |-> NoResult, dkey |-> <<>>, dec |-> NoResult]

SealInit ==
    /\ seal = SealStart
    /\ codec = Idle
    /\ cli = Idle

SealGenerateKey ==
    /\ seal.pc = "start"
    /\ \E array \in RandomKeyArrays :
          seal' = [seal EXCEPT !.pc = "keyed", !.src = "generated",
                      !.array = array, !.key = generateEncryptionKey(array)]
    /\ UNCHANGED <<codec, cli>>

SealGivenKey ==
    /\ seal.pc = "start"
    /\ \E k \in GivenKeys :
          seal' = [seal EXCEPT !.pc = "keyed", !.src = "given", !.key = k]
    /\ UNCHANGED <<codec, cli>>

SealEncryptData ==
    /\ seal.pc = "keyed"
    /\ \E p \in Plaintexts, iv \in RandomIvs :
          seal' = [seal EXCEPT !.pc = "sealed", !.kind = "text", !.plain = p,
                      !.enc = encryptData(p, seal.key, iv)]
    /\ UNCHANGED <<codec, cli>>

SealEncryptFile ==
    /\ seal.pc = "keyed"
    /\ \E b \in FileBuffers, iv \in RandomIvs :
          seal' = [seal EXCEPT !.pc = "sealed", !.kind = "file", !.plain = b,
                      !.enc = encryptFileBuffer(b, seal.key, iv)]
    /\ UNCHANGED <<codec, cli>>

\* an envelope of the legacy layout, as the other SnapPwd clients made them
\* under a 16-byte key: base64 of nonce(12) || ciphertext and tag
LegacyEnvelope(plaintext, K, iv) ==
    Base64Encode(iv \o AesGcmEncrypt(K, iv, TextEncode(plaintext)))

\* well-formed texts: 'a', a byte order mark, U+1F600
LegacyPlaintexts == {<<>>, <<97>>, <<65279>>, <<65279, 97>>, <<55357, 56832>>}

SealLegacy ==
    /\ seal.pc = "keyed"
    /\ base58Decode(seal.key).err = ""
    /\ Len(base58Decode(seal.key).val) = 16
    /\ \E p \in LegacyPlaintexts, iv \in RandomIvs :
          LET K == base58Decode(seal.key).val
          IN  seal' = [seal EXCEPT !.pc = "sealed", !.kind = "legacy", !.plain = p,
                          !.enc = [err |-> "", val |-> LegacyEnvelope(p, K, iv),
                                   aead |-> TRUE, iv |-> iv,
                                   data |-> AesGcmEncrypt(K, iv, TextEncode(p))]]
    /\ UNCHANGED <<codec, cli>>

\* the keys a decryption is tried with: the key of the encryption or a given one
DecryptKeys == {seal.key} \cup GivenKeys

SealDecryptData ==
    /\ seal.pc = "sealed"
    /\ seal.kind \in {"text", "legacy"}
    /\ seal.enc.err = ""
    /\ \E k \in DecryptKeys :
          seal' = [seal EXCEPT !.pc = "opened", !.dkey = k,
                      !.dec = decryptData(seal.enc.val, k)]
    /\ UNCHANGED <<codec, cli>>

SealDecryptFile ==
    /\ seal.pc = "sealed"
    /\ seal.kind = "file"
    /\ seal.enc.err = ""
    /\ \E k \in DecryptKeys :
          seal' = [seal EXCEPT !.pc = "opened", !.dkey = k,
                      !.dec = decryptFileBuffer(seal.enc.iv, seal.enc.data, k)]
    /\ UNCHANGED <<codec, cli>>

SealNext ==
    \/ SealGenerateKey
    \/ SealGivenKey
    \/ SealEncryptData
    \/ SealEncryptFile
    \/ SealLegacy
    \/ SealDecryptData
    \/ SealDecryptFile

SpecSeal == SealInit /\ [][SealNext]_vars

(***************************************************************************)
(* Properties of the codec                                                 *)
(***************************************************************************)
\* the textbook conversion, for reference: divide the big-endian number by 58
\* again and again; the remainders are its base-58 digits, least significant
\* first
RECURSIVE RefDivide(_, _, _, _)
RefDivide(bytes, i, rem, quot) ==
    IF i > Len(bytes) THEN [quot |-> quot, rem |-> rem]
    ELSE LET cur == rem * 256 + bytes[i]
         IN  RefDivide(bytes, i + 1, cur % 58, Append(quot, cur \div 58))

\* the base-58 digits of the number, most significant first; none for zero
RECURSIVE RefDigits(_)
RefDigits(bytes) ==
    IF \A i \in 1..Len(bytes) : bytes[i] = 0 THEN <<>>
    ELSE LET r == RefDivide(bytes, 1, 0, <<>>)
         IN  Append(RefDigits(r.quot), r.rem)

RefEncode(bytes) ==
    LET d == RefDigits(bytes)
    IN  Repeat(49, LeadingCount(bytes, 0)) \o [i \in 1..Len(d) |-> BASE58_ALPHABET[d[i] + 1]]

\* C1: decoding the encoding of a byte sequence gives the byte sequence back,
\* also for the empty sequence and for sequences of zero bytes.
C1_RoundTrip ==
    codec.pc = "roundtrip" =>
        /\ codec.out.err = ""
        /\ Len(codec.out.val) = Len(codec.bytes)
        /\ \A i \in 1..Len(codec.bytes) : codec.out.val[i] = codec.bytes[i]

\* C5: the encoding is one '1' per leading zero byte followed by the base-58
\* digits of the remaining value, most significant first: the empty string
\* for the empty sequence, N times '1' for N zero bytes, "12" for [0x00, 0x01].
C5_EncodeShape ==
    codec.pc \in {"encoded", "roundtrip"} =>
        /\ codec.text = RefEncode(codec.bytes)
        /\ codec.bytes = <<>> => codec.text = <<>>
        /\ (\A i \in 1..Len(codec.bytes) : codec.bytes[i] = 0)
              => codec.text = Repeat(49, Len(codec.bytes))
        /\ codec.bytes = <<0, 1>> => codec.text = <<49, 50>>

(***************************************************************************)
(* Properties of keys and envelopes                                        *)
(***************************************************************************)
\* the bytes of the envelope last produced
SealEnv == Base64Decode(seal.enc.val)

KeyOf(k) == base58Decode(k)

InAlphabet(c) == \E i \in 1..58 : BASE58_ALPHABET[i] = c

\* k is a base-58 text that decodes to a key of one of the lengths
KeyWithLength(k, lengths) ==
    /\ \A i \in 1..Len(k) : InAlphabet(k[i])
    /\ Len(KeyOf(k).val) \in lengths

InvalidKeyErrors == {"Invalid base58 character", "Invalid key length"}

AllZero(b) == \A i \in 1..Len(b) : b[i] = 0

TextSealed ==
    seal.pc \in {"sealed", "opened"} /\ seal.kind = "text" /\ seal.enc.err = ""

\* C2: a text encrypted under a generated key, whatever bytes the random
\* source gave, decrypts under that key to the same text.
C2_SealOpenRoundTrip ==
    /\ (seal.pc \in {"sealed", "opened"} /\ seal.src = "generated" /\ seal.kind = "text")
          => seal.enc.err = ""
    /\ (seal.pc = "opened" /\ seal.src = "generated" /\ seal.kind = "text"
          /\ seal.dkey = seal.key)
          => seal.dec.err = "" /\ seal.dec.val = seal.plain

\* C4, as claimed: a generated key decodes to exactly 32 bytes.
C4_Decodes32 ==
    seal.src = "generated" =>
        KeyOf(seal.key).err = "" /\ Len(KeyOf(seal.key).val) = 32

\* C4, amended: a generated key is a base-58 text that decodes to exactly the
\* 16 bytes drawn; when all 16 bytes drawn are zero it is seventeen '1's,
\* which decode to 18 zero bytes.
C4_Decodes16 ==
    seal.src = "generated" =>
        /\ Len(seal.array) = 16
        /\ \A i \in 1..Len(seal.key) : InAlphabet(seal.key[i])
        /\ KeyOf(seal.key).err = ""
        /\ IF AllZero(seal.array)
           THEN seal.key = Repeat(49, 17) /\ KeyOf(seal.key).val = Repeat(0, 18)
           ELSE Len(KeyOf(seal.key).val) = 16 /\ KeyOf(seal.key).val = seal.array

C4_Witness ==
    /\ seal.pc = "keyed"
    /\ seal.src = "generated"
    /\ LeadingCount(seal.array, 0) = 3
    /\ Len(KeyOf(seal.key).val) = 16

\* C6, as claimed: the envelope of a text is a version byte, 1 for a 16-byte
\* key and 2 for a 32-byte key, then the 12-byte nonce, then ciphertext and tag.
C6_VersionedEnvelope ==
    (TextSealed /\ Len(KeyOf(seal.key).val) \in {16, 32}) =>
        SealEnv = <<IF Len(KeyOf(seal.key).val) = 16 THEN 1 ELSE 2>>
                     \o seal.enc.iv \o seal.enc.data

\* C6, amended: the envelope of a text is the 12-byte nonce followed by the
\* ciphertext and its 16-byte tag, with no version byte, whatever the length
\* of the key.
C6_NonceThenCiphertext ==
    TextSealed =>
        LET K  == KeyOf(seal.key).val
            pt == TextEncode(seal.plain)
        IN  /\ seal.enc.iv \in RandomIvs
            /\ Len(SealEnv) = 12 + Len(pt) + 16
            /\ Slice(SealEnv, 0, 12) = seal.enc.iv
            /\ Slice(SealEnv, 12, Len(SealEnv)) = AesGcmEncrypt(K, seal.enc.iv, pt)

C6_Witness ==
    /\ TextSealed
    /\ Len(KeyOf(seal.key).val) = 32
    /\ seal.plain # <<>>
    /\ SealEnv[1] = 200

TextOpened ==
    seal.pc = "opened" /\ seal.kind \in {"text", "legacy"} /\ seal.dec.aead

\* C7, as claimed: when the first byte of the envelope is 1 or 2 the nonce is
\* bytes 1..13 and the ciphertext starts at byte 13; otherwise the nonce is
\* bytes 0..12 and the ciphertext starts at byte 12.
C7_LayoutFromFirstByte ==
    TextOpened =>
        IF SealEnv[1] \in {1, 2}
        THEN /\ seal.dec.iv = Slice(SealEnv, 1, 13)
             /\ seal.dec.data = Slice(SealEnv, 13, Len(SealEnv))
        ELSE /\ seal.dec.iv = Slice(SealEnv, 0, 12)
             /\ seal.dec.data = Slice(SealEnv, 12, Len(SealEnv))

\* C7, amended: whatever the first byte of the envelope, the nonce is bytes
\* 0..12 and the ciphertext starts at byte 12; an envelope whose nonce starts
\* with 0x01 or 0x02 is parsed like any other and decrypts under its key.
C7_LayoutFixed ==
    TextOpened =>
        /\ seal.dec.iv = Slice(SealEnv, 0, 12)
        /\ seal.dec.data = Slice(SealEnv, 12, Len(SealEnv))
        /\ seal.dkey = seal.key => seal.dec.err = ""

C7_Witness ==
    /\ TextOpened
    /\ seal.kind = "legacy"
    /\ SealEnv[1] \in {1, 2}
    /\ seal.dkey = seal.key
    /\ seal.dec.err = ""

\* C8: an envelope of the legacy layout made under a key whose text decodes to
\* 16 bytes is accepted under that key and gives the original plaintext.
C8_LegacyAccepted ==
    (seal.pc = "opened" /\ seal.kind = "legacy" /\ seal.dkey = seal.key) =>
        seal.dec.err = "" /\ seal.dec.val = seal.plain

\* what C9 says of one call: with a key that is none of the lengths, the call
\* fails with an invalid-key error and the cipher is never used
RejectsKey(k, lengths, result) ==
    ~KeyWithLength(k, lengths) =>
        result.err \in InvalidKeyErrors /\ ~result.aead

RejectsKeys(lengths) ==
    /\ seal.pc \in {"sealed", "opened"} /\ seal.kind \in {"text", "file"}
          => RejectsKey(seal.key, lengths, seal.enc)
    /\ seal.pc = "opened" => RejectsKey(seal.dkey, lengths, seal.dec)

\* C9, as claimed: encryptData, decryptData, encryptFileBuffer and
\* decryptFileBuffer fail with an invalid-key error, before the cipher is
\* used, when the key text has a character outside the alphabet or decodes to
\* a length other than 16 or 32 bytes.
C9_RejectsAllBut16And32 == RejectsKeys({16, 32})

\* C9, amended: the same, for a length other than 16, 24 or 32 bytes.
C9_RejectsAllBut16And24And32 == RejectsKeys({16, 24, 32})

C9_Witness ==
    /\ seal.pc = "opened"
    /\ seal.kind = "file"
    /\ Len(KeyOf(seal.dkey).val) = 17
    /\ seal.dec.err = "Invalid key length"
    /\ ~seal.dec.aead

\* C10: a text encrypted under one valid key and decrypted with a different
\* valid key fails with an authentication error; no plaintext comes back.
C10_WrongKeyFails ==
    (seal.pc = "opened" /\ seal.kind = "text"
        /\ KeyWithLength(seal.key, {16, 24, 32})
        /\ KeyWithLength(seal.dkey, {16, 24, 32})
        /\ seal.dkey # seal.key)
      => seal.dec.err = "OperationError" /\ seal.dec.val = <<>>

C10_Witness ==
    /\ seal.pc = "opened"
    /\ seal.kind = "text"
    /\ seal.src = "generated"
    /\ Len(KeyOf(seal.key).val) = 16
    /\ Len(KeyOf(seal.dkey).val) = 16
    /\ seal.dkey # seal.key
    /\ seal.dec.aead
    /\ seal.dec.err = "OperationError"

(***************************************************************************)
(* Strings of the CLI and of the API client, as sequences of character     *)
(* codes, and the string operations the code applies to them.              *)
(***************************************************************************)
\* the string literals of index.ts
Txt ==
    [ https        |-> <<104, 116, 116, 112, 115, 58, 47, 47>>,  \* "https://"
      http         |-> <<104, 116, 116, 112, 58, 47, 47>>,  \* "http://"
      apiHost      |-> <<97, 112, 105, 46, 115, 110, 97, 112, 112, 119, 100, 46, 105, 111>>,  \* "api.snappwd.io"
      webUrl       |-> <<104, 116, 116, 112, 115, 58, 47, 47, 115, 110, 97, 112, 112, 119, 100, 46, 105, 111>>,  \* "https://snappwd.io"
      apiV1        |-> <<47, 97, 112, 105, 47, 118, 49>>,  \* "/api/v1"
      g            |-> <<103>>,  \* "g"
      file         |-> <<102, 105, 108, 101>>,  \* "file"
      sp           |-> <<115, 112, 45>>,  \* "sp-"
      spf          |-> <<115, 112, 102, 45>>,  \* "spf-"
      undefined    |-> <<117, 110, 100, 101, 102, 105, 110, 101, 100>>,  \* "undefined"
      nan          |-> <<78, 97, 78>>,  \* "NaN"
      octetStream  |-> <<97, 112, 112, 108, 105, 99, 97, 116, 105, 111, 110, 47, 111, 99, 116, 101, 116, 45, 115, 116, 114, 101, 97, 109>>,  \* "application/octet-stream"
      textPlain    |-> <<116, 101, 120, 116, 47, 112, 108, 97, 105, 110>>,  \* "text/plain"
      dotTxt       |-> <<46, 116, 120, 116>>,  \* ".txt"
      slash        |-> <<47>>,  \* "/"
      hash         |-> <<35>>,  \* "#"
      space        |-> <<32>> ]  \* " "

\* the string literals of SnapPwdApi and of JSON.stringify
ApiTxt ==
    [ secrets      |-> <<47, 115, 101, 99, 114, 101, 116, 115>>,  \* "/secrets"
      files        |-> <<47, 102, 105, 108, 101, 115>>,  \* "/files"
      peekQuery    |-> <<63, 112, 101, 101, 107, 61, 116, 114, 117, 101>>,  \* "?peek=true"
      null         |-> <<110, 117, 108, 108>>,  \* "null"
      json         |-> <<97, 112, 112, 108, 105, 99, 97, 116, 105, 111, 110, 47, 106, 115, 111, 110>>,  \* "application/json"
      contentType  |-> <<67, 111, 110, 116, 101, 110, 116, 45, 84, 121, 112, 101>> ]  \* "Content-Type"

EndsWith(s, p) == Len(s) >= Len(p) /\ Slice(s, Len(s) - Len(p), Len(s)) = p

\* the first position at or after from (1-based) whose character is in chars,
\* Len(s) + 1 when there is none
IndexOfAny(s, chars, from) ==
    CHOOSE i \in from..(Len(s) + 1) :
        /\ i = Len(s) + 1 \/ s[i] \in chars
        /\ \A j \in from..(i - 1) : s[j] \notin chars

\* String.prototype.split with a one-character separator
Split(s, sep) ==
    LET at    == {i \in 1..Len(s) : s[i] = sep}
        cut(k) == IF k = 0 THEN 0
                  ELSE IF k = Cardinality(at) + 1 THEN Len(s) + 1
                  ELSE CHOOSE p \in at : Cardinality({q \in at : q < p}) = k - 1
    IN  [k \in 1..(Cardinality(at) + 1) |-> Slice(s, cut(k - 1), cut(k) - 1)]

\* Array.prototype.indexOf: 0-based, -1 when absent
IndexOf(parts, x) ==
    IF \E i \in 1..Len(parts) : parts[i] = x
    THEN (CHOOSE i \in 1..Len(parts) :
             parts[i] = x /\ \A j \in 1..(i - 1) : parts[j] # x) - 1
    ELSE -1

\* parts[i] for a 0-based i; <<>> stands for undefined as for the empty
\* string, both are falsy where the code tests them
PartAt(parts, i) == IF i >= 0 /\ i < Len(parts) THEN parts[i + 1] ELSE <<>>

IsDigit(c) == c >= 48 /\ c <= 57

RECURSIVE DigitsValue(_)
DigitsValue(s) == IF s = <<>> THEN 0
                  ELSE 10 * DigitsValue(Slice(s, 0, Len(s) - 1)) + (s[Len(s)] - 48)

\* parseInt(s, 10) of an unsigned text: the value of the leading digits, NaN
\* when there is none
parseInt(s) ==
    LET n == CHOOSE k \in 0..Len(s) :
                 /\ \A i \in 1..k : IsDigit(s[i])
                 /\ k = Len(s) \/ ~IsDigit(s[k + 1])
    IN  IF n = 0 THEN [nan |-> TRUE, n |-> 0]
        ELSE [nan |-> FALSE, n |-> DigitsValue(Slice(s, 0, n))]

RECURSIVE Decimal(_)
\* the decimal digits of a natural number
Decimal(n) == IF n < 10 THEN <<48 + n>> ELSE Decimal(n \div 10) \o <<48 + (n % 10)>>

\* a number inside JSON.stringify or a template literal
JsonNumber(x) == IF x.nan THEN ApiTxt.null ELSE Decimal(x.n)

(***************************************************************************)
(* new URL(str): scheme, host, pathname and hash of an http(s) URL.        *)
(* Anything else counts as invalid; percent-encoding and dot segments are  *)
(* not modelled, the URLs of the model have neither.                       *)
(***************************************************************************)
SchemeOf(str) ==
    IF StartsWith(str, Txt.https) THEN Txt.https
    ELSE IF StartsWith(str, Txt.http) THEN Txt.http ELSE <<>>

\* rest: what follows the scheme. The host ends at the first '/', '?' or '#'
UrlHostEnd(rest) == IndexOfAny(rest, {47, 63, 35}, 1)

\* the path runs from there to the first '?' or '#'; an empty path is "/"
UrlPathname(rest) ==
    LET path == Slice(rest, UrlHostEnd(rest) - 1, IndexOfAny(rest, {63, 35}, 1) - 1)
    IN  IF path = <<>> THEN Txt.slash ELSE path

\* url.hash: from the first '#' on, "" when nothing follows it
UrlHash(rest) ==
    LET hashAt == IndexOfAny(rest, {35}, 1)
    IN  IF hashAt >= Len(rest) THEN <<>> ELSE Slice(rest, hashAt - 1, Len(rest))

UrlOf(scheme, rest) ==
    IF scheme = <<>> \/ UrlHostEnd(rest) = 1
    THEN [err |-> "Invalid URL", pathname |-> <<>>, hash |-> <<>>]
    ELSE [err |-> "", pathname |-> UrlPathname(rest), hash |-> UrlHash(rest)]

ParseUrl(str) == UrlOf(SchemeOf(str), Slice(str, Len(SchemeOf(str)), Len(str)))

\* String.prototype.replace('#', ''): the first '#' is removed
RemoveFirstHash(s) ==
    LET at == IndexOfAny(s, {35}, 1)
    IN  Slice(s, 0, at - 1) \o Slice(s, at, Len(s))

\* path.basename
basename(p) ==
    LET parts == SelectSeq(Split(p, 47), LAMBDA x : x # <<>>)
    IN  IF parts = <<>> THEN <<>> ELSE parts[Len(parts)]

\* mime.lookup(filePath) || 'application/octet-stream', for the extensions
\* of the model's files
contentTypeOf(p) == IF EndsWith(p, Txt.dotTxt) THEN Txt.textPlain ELSE Txt.octetStream

(***************************************************************************)
(* index.ts: getWebUrl                                                     *)
(***************************************************************************)
getWebUrl(apiUrl) ==
    IF Contains(apiUrl, Txt.apiHost) THEN Txt.webUrl
    ELSE IF EndsWith(apiUrl, Txt.apiV1 \o Txt.slash)
         THEN Slice(apiUrl, 0, Len(apiUrl) - Len(Txt.apiV1) - 1)
    ELSE IF EndsWith(apiUrl, Txt.apiV1)
         THEN Slice(apiUrl, 0, Len(apiUrl) - Len(Txt.apiV1))
    ELSE apiUrl

(***************************************************************************)
(* SnapPwdApi: the client's base URL and the requests its methods send.    *)
(* A request is [method, url, headers, body]; headers and body are         *)
(* sequences of [name, value] with the value as text.                      *)
(***************************************************************************)
\* constructor: one trailing '/' is removed
SnapPwdApi(baseUrl) ==
    IF EndsWith(baseUrl, Txt.slash) THEN Slice(baseUrl, 0, Len(baseUrl) - 1) ELSE baseUrl

JsonHeaders == << [name |-> ApiTxt.contentType, value |-> ApiTxt.json] >>

createSecret(api, encryptedSecret, expiration) ==
    [method |-> "POST", url |-> api \o ApiTxt.secrets, headers |-> JsonHeaders,
     body |-> << [name |-> "encryptedSecret", value |-> encryptedSecret],
                 [name |-> "expiration", value |-> JsonNumber(expiration)] >>]

getSecret(api, id, peek) ==
    [method |-> "GET",
     url |-> IF peek THEN api \o ApiTxt.secrets \o Txt.slash \o id \o ApiTxt.peekQuery
             ELSE api \o ApiTxt.secrets \o Txt.slash \o id,
     headers |-> <<>>, body |-> <<>>]

uploadFile(api, metadata, encryptedData, expiration) ==
    [method |-> "POST", url |-> api \o ApiTxt.files, headers |-> JsonHeaders,
     body |-> << [name |-> "metadata.originalFilename", value |-> metadata.originalFilename],
                 [name |-> "metadata.contentType", value |-> metadata.contentType],
                 [name |-> "metadata.iv", value |-> metadata.iv],
                 [name |-> "encryptedData", value |-> encryptedData],
                 [name |-> "expiration", value |-> JsonNumber(expiration)] >>]

\* getFile has no peek parameter: a second argument is ignored
getFile(api, id) ==
    [method |-> "GET", url |-> api \o ApiTxt.files \o Txt.slash \o id,
     headers |-> <<>>, body |-> <<>>]

\* request: what the awaited call gives for the server's answer. The answer
\* is [kind, shape, ...]: fetch fails ("network"), the status is not ok
\* ("status"), the body is not JSON ("badjson"), or a JSON value of a shape.
Received(resp) ==
    IF resp.kind = "network" THEN "fetch failed"
    ELSE IF resp.kind = "status" THEN "API Error"
    ELSE IF resp.kind = "badjson" THEN "Unexpected token"
    ELSE ""

(***************************************************************************)
(* index.ts: one run of the CLI.                                           *)
(*                                                                         *)
(* A run is [cmd, apiUrl, arg, key, id, requests, stdout, stderr, exit,    *)
(* files, trace]: the requests sent, the lines written, the exit status,   *)
(* the files written, and the order of all that in trace. The random       *)
(* bytes drawn, the server's answer and the file system's state are        *)
(* parameters of a command.                                                *)
(***************************************************************************)
CliStart ==
    [pc |-> "ready", cmd |-> "", apiUrl |-> <<>>, arg |-> <<>>, key |-> <<>>,
     id |-> <<>>, requests |-> <<>>, stdout |-> <<>>, stderr |-> <<>>,
     exit |-> 0, files |-> <<>>, trace |-> <<>>]

Started(cmd, apiUrl, arg) ==
    [CliStart EXCEPT !.pc = "done", !.cmd = cmd, !.apiUrl = apiUrl, !.arg = arg]

\* fetch(url, options)
Sent(run, req) ==
    [run EXCEPT !.requests = Append(@, req), !.trace = Append(@, "request")]

\* console.log
Logged(run, fmt, arg) ==
    [run EXCEPT !.stdout = Append(@, [fmt |-> fmt, arg |-> arg]),
                !.trace = Append(@, "stdout")]

\* console.error
ErrorLogged(run, fmt, message) ==
    [run EXCEPT !.stderr = Append(@, [fmt |-> fmt, arg |-> message]),
                !.trace = Append(@, "stderr")]

\* the catch block of an action: console.error('Error:', error.message) and
\* process.exit(1)
Caught(run, message) ==
    [ErrorLogged(run, "Error:", message) EXCEPT !.exit = 1, !.trace = Append(@, "exit")]

\* fs.writeFileSync
Written(run, path, data) ==
    [run EXCEPT !.files = Append(@, [path |-> path, data |-> data]),
                !.trace = Append(@, "write")]

\* `${response.secretId}`: "undefined" when the answer has no such field
secretId(resp) == IF resp.shape = "created" THEN resp.id ELSE Txt.undefined

\* `${response.fileId}`
fileId(resp) == IF resp.shape = "uploaded" THEN resp.id ELSE Txt.undefined

shareUrlOf(apiUrl, id, key) ==
    getWebUrl(apiUrl) \o Txt.slash \o Txt.g \o Txt.slash \o id \o Txt.hash \o key

\* put after the upload: the URL is printed
putDone(sent, apiUrl, key, resp) ==
    IF Received(resp) # "" THEN Caught(sent, Received(resp))
    ELSE IF resp.shape = "null" THEN Caught(sent, "Cannot read properties of null")
    ELSE Logged(Logged([sent EXCEPT !.id = secretId(resp)],
                       "Secret created successfully!", <<>>),
                "URL: ", shareUrlOf(apiUrl, secretId(resp), key))

\* put after encryptData: the envelope is uploaded
putSealed(run, api, apiUrl, expiration, key, encryptedSecret, resp) ==
    IF encryptedSecret.err # "" THEN Caught(run, encryptedSecret.err)
    ELSE putDone(Sent(run, createSecret(api, encryptedSecret.val, expiration)),
                 apiUrl, key, resp)

\* put after generateEncryptionKey
putKeyed(run, api, apiUrl, text, expiration, key, iv, resp) ==
    putSealed([run EXCEPT !.key = key], api, apiUrl, expiration, key,
              encryptData(text, key, iv), resp)

put(apiUrl, text, expirationOpt, array, iv, resp) ==
    putKeyed(Started("put", apiUrl, text), SnapPwdApi(apiUrl), apiUrl, text,
             parseInt(expirationOpt), generateEncryptionKey(array), iv, resp)

\* put-file after the upload: the URL is printed
putFileDone(sent, apiUrl, key, resp) ==
    IF Received(resp) # "" THEN Caught(sent, Received(resp))
    ELSE IF resp.shape = "null" THEN Caught(sent, "Cannot read properties of null")
    ELSE Logged(Logged([sent EXCEPT !.id = fileId(resp)],
                       "File uploaded successfully!", <<>>),
                "URL: ", shareUrlOf(apiUrl, fileId(resp), key))

\* put-file after encryptFileBuffer: metadata and ciphertext are uploaded
putFileSealed(run, api, apiUrl, filePath, expiration, key, enc, resp) ==
    IF enc.err # "" THEN Caught(run, enc.err)
    ELSE putFileDone(
             Sent(run, uploadFile(api,
                                  [originalFilename |-> basename(filePath),
                                   contentType |-> contentTypeOf(filePath),
                                   iv |-> Base64Encode(enc.iv)],
                                  Base64Encode(enc.data), expiration)),
             apiUrl, key, resp)

\* put-file after generateEncryptionKey
putFileKeyed(run, api, apiUrl, file, expiration, key, iv, resp) ==
    putFileSealed([run EXCEPT !.key = key], api, apiUrl, file.path, expiration, key,
                  encryptFileBuffer(file.data, key, iv), resp)

\* file: what the file system holds at filePath, [path, exists, readable, data]
putFile(apiUrl, file, expirationOpt, array, iv, resp) ==
    IF ~file.exists THEN Caught(Started("put-file", apiUrl, file.path), "File not found")
    ELSE IF ~file.readable
    THEN Caught(Started("put-file", apiUrl, file.path),
                "EISDIR: illegal operation on a directory, read")
    ELSE putFileKeyed(Started("put-file", apiUrl, file.path), SnapPwdApi(apiUrl), apiUrl,
                      file, parseInt(expirationOpt), generateEncryptionKey(array), iv, resp)

\* peek: the ID in the path, the segment after "g" or else a last segment
\* that starts with "sp-"; <<>> when there is none
peekId(pathParts) ==
    IF IndexOf(pathParts, Txt.g) # -1 /\ PartAt(pathParts, IndexOf(pathParts, Txt.g) + 1) # <<>>
    THEN PartAt(pathParts, IndexOf(pathParts, Txt.g) + 1)
    ELSE IF StartsWith(pathParts[Len(pathParts)], Txt.sp) THEN pathParts[Len(pathParts)]
    ELSE <<>>

peekChecked(id) ==
    IF id = <<>> THEN [err |-> "Could not parse secret ID from URL", id |-> <<>>]
    ELSE [err |-> "", id |-> id]

peekParsed(url) ==
    IF url.err # "" THEN [err |-> url.err, id |-> <<>>]
    ELSE peekChecked(peekId(Split(url.pathname, 47)))

\* peek: the ID taken from the URL, or the error thrown
peekTarget(urlStr) == peekParsed(ParseUrl(urlStr))

\* `Expires in: ${parts.join(' ')}` for a number of seconds
expiresIn(ttl) ==
    IF ttl.nan THEN Txt.nan \o <<115>>
    ELSE (IF ttl.n \div 86400 > 0
          THEN Decimal(ttl.n \div 86400) \o <<100>> \o Txt.space ELSE <<>>)
         \o (IF (ttl.n % 86400) \div 3600 > 0
             THEN Decimal((ttl.n % 86400) \div 3600) \o <<104>> \o Txt.space ELSE <<>>)
         \o (IF (ttl.n % 3600) \div 60 > 0
             THEN Decimal((ttl.n % 3600) \div 60) \o <<109>> \o Txt.space ELSE <<>>)
         \o Decimal(ttl.n % 60) \o <<115>>

\* peek's report, line by line
peekMetadata(run, meta) ==
    IF meta.hasMeta THEN Logged(run, "Custom Metadata:", <<>>) ELSE run

peekExpires(run, meta) ==
    peekMetadata(
        IF ~meta.ttl.nan /\ meta.ttl.n = -1 THEN Logged(run, "Expires: Never", <<>>)
        ELSE IF ~meta.ttl.nan /\ meta.ttl.n = -2
        THEN Logged(run, "Status: Expired or Key Missing", <<>>)
        ELSE Logged(run, "Expires in: ", expiresIn(meta.ttl)),
        meta)

peekCreated(run, meta) ==
    peekExpires(IF meta.createdAt > 0 THEN Logged(run, "Created: ", <<>>) ELSE run, meta)

peekReport(run, id, meta) == peekCreated(Logged(run, "ID: ", id), meta)

\* peek after the request
peekDone(sent, id, json, resp) ==
    IF Received(resp) # "" THEN Caught(sent, Received(resp))
    ELSE IF resp.shape = "null"
    THEN Caught(sent, "Cannot use 'in' operator to search for 'encryptedSecret' in null")
    ELSE IF resp.shape \in {"secret", "file", "fileNoMeta"}
    THEN ErrorLogged(sent,
             "Error: API returned the secret instead of metadata. It might have been burned.",
             "")
    ELSE IF json THEN Logged(sent, "json", id)
    ELSE peekReport(sent, id, resp)

\* peek after the URL is parsed: getFile for a file ID, getSecret with
\* peek = true otherwise
peekParsedRun(run, api, target, json, resp) ==
    IF target.err # "" THEN Caught(run, target.err)
    ELSE peekDone(Sent([run EXCEPT !.id = target.id],
                       IF StartsWith(target.id, Txt.spf) THEN getFile(api, target.id)
                       ELSE getSecret(api, target.id, TRUE)),
                  target.id, json, resp)

peek(apiUrl, urlStr, json, resp) ==
    peekParsedRun(Started("peek", apiUrl, urlStr), SnapPwdApi(apiUrl),
                  peekTarget(urlStr), json, resp)

\* get: the ID in the path, the segment after "g", else the one after
\* "file", else a last segment that starts with "sp-" or "spf-"; <<>> when
\* there is none
getId(pathParts) ==
    IF IndexOf(pathParts, Txt.g) # -1 /\ PartAt(pathParts, IndexOf(pathParts, Txt.g) + 1) # <<>>
    THEN PartAt(pathParts, IndexOf(pathParts, Txt.g) + 1)
    ELSE IF IndexOf(pathParts, Txt.file) # -1
            /\ PartAt(pathParts, IndexOf(pathParts, Txt.file) + 1) # <<>>
    THEN PartAt(pathParts, IndexOf(pathParts, Txt.file) + 1)
    ELSE IF StartsWith(pathParts[Len(pathParts)], Txt.sp)
            \/ StartsWith(pathParts[Len(pathParts)], Txt.spf)
    THEN pathParts[Len(pathParts)]
    ELSE <<>>

\* get checking the key only, as index.ts did before the ID was checked
getChecked_keyOnly(key, id) ==
    IF key = <<>>
    THEN [err |-> "No encryption key found in URL fragment", key |-> key, id |-> id]
    ELSE [err |-> "", key |-> key, id |-> id]

\* the key is checked first, then the ID
getChecked(key, id) ==
    IF key = <<>>
    THEN [err |-> "No encryption key found in URL fragment", key |-> key, id |-> id]
    ELSE IF id = <<>>
    THEN [err |-> "Could not parse secret ID from URL", key |-> key, id |-> id]
    ELSE [err |-> "", key |-> key, id |-> id]

getParsed(url) ==
    IF url.err # "" THEN [err |-> url.err, key |-> <<>>, id |-> <<>>]
    ELSE getChecked(RemoveFirstHash(url.hash), getId(Split(url.pathname, 47)))

\* get taking the ID from the last '/'-separated piece of the whole URL
\* string, fragment included
getTarget_rawSplit(urlStr) ==
    IF ParseUrl(urlStr).err # ""
    THEN [err |-> ParseUrl(urlStr).err, key |-> <<>>, id |-> <<>>]
    ELSE getChecked(RemoveFirstHash(ParseUrl(urlStr).hash),
                    Split(urlStr, 47)[Len(Split(urlStr, 47))])

\* get: the key and the ID taken from the URL, or the error thrown
getTarget(urlStr) == getParsed(ParseUrl(urlStr))

\* decryptData or decryptFileBuffer has returned
Decrypted(run) == [run EXCEPT !.trace = Append(@, "decrypt")]

\* get of a file, after decryptFileBuffer: the file is written and its path
\* printed. disk: what fs.writeFileSync meets, "ok", "denied" (the open
\* fails, nothing is written) or "full" (the file is opened and truncated,
\* a write fails, the bytes written so far stay)
getFileOpened(sent, decryptedBuffer, outputPath, disk) ==
    IF decryptedBuffer.err # "" THEN Caught(sent, decryptedBuffer.err)
    ELSE IF outputPath = <<>>
    THEN Caught(Decrypted(sent), "The path argument must be of type string")
    ELSE IF disk = "denied"
    THEN Caught(Decrypted(sent), "EACCES: permission denied, open")
    ELSE IF disk = "full"
    THEN Caught(Written(Decrypted(sent), outputPath,
                        Slice(decryptedBuffer.val, 0, Len(decryptedBuffer.val) \div 2)),
                "ENOSPC: no space left on device, write")
    ELSE Logged(Written(Decrypted(sent), outputPath, decryptedBuffer.val),
                "File saved to: ", outputPath)

\* get of a file, after the request. output: the --output option, <<>> when
\* not given
getFileDone(sent, key, output, resp, disk) ==
    IF Received(resp) # "" THEN Caught(sent, Received(resp))
    ELSE IF resp.shape = "null"
    THEN Caught(sent, "Cannot use 'in' operator to search for 'encryptedData' in null")
    ELSE IF resp.shape \notin {"file", "fileNoMeta"}
    THEN Caught(sent, "Unexpected response: Received metadata instead of file.")
    ELSE IF resp.shape = "fileNoMeta"
    THEN Caught(sent, "Cannot read properties of undefined (reading 'iv')")
    ELSE getFileOpened(sent,
                       decryptFileBuffer(Base64Decode(resp.iv), Base64Decode(resp.data), key),
                       IF output # <<>> THEN output ELSE resp.name, disk)

\* get of a text, after decryptData: the text is printed
getSecretOpened(sent, secret) ==
    IF secret.err # "" THEN Caught(sent, secret.err)
    ELSE Logged(Decrypted(sent), "%s", secret.val)

\* get of a text, after the request
getSecretDone(sent, key, resp) ==
    IF Received(resp) # "" THEN Caught(sent, Received(resp))
    ELSE IF resp.shape = "null"
    THEN Caught(sent, "Cannot use 'in' operator to search for 'encryptedSecret' in null")
    ELSE IF resp.shape # "secret"
    THEN Caught(sent, "Unexpected response: Received metadata instead of secret.")
    ELSE getSecretOpened(sent, decryptData(resp.text, key))

\* get after the URL is parsed: the type is taken from the ID's prefix
getParsedRun(run, api, target, output, resp, disk) ==
    IF target.err # "" THEN Caught(run, target.err)
    ELSE IF StartsWith(target.id, Txt.spf)
    THEN getFileDone(Sent(run, getFile(api, target.id)), target.key, output, resp, disk)
    ELSE getSecretDone(Sent(run, getSecret(api, target.id, FALSE)), target.key, resp)

\* get knowing the key and the ID
getTargeted(run, api, target, output, resp, disk) ==
    getParsedRun([run EXCEPT !.key = target.key, !.id = target.id], api, target,
                 output, resp, disk)

get(apiUrl, urlStr, output, resp, disk) ==
    getTargeted(Started("get", apiUrl, urlStr), SnapPwdApi(apiUrl), getTarget(urlStr),
                output, resp, disk)

(***************************************************************************)
(* The CLI's runs: each step is one run of a command, with its arguments,  *)
(* the random bytes, the server's answer and the file system chosen from   *)
(* the sets below. Runs are processes of their own and share nothing but   *)
(* the link: a behaviour is one run, or a put or put-file followed by a    *)
(* get or peek of the URL it printed.                                      *)
(***************************************************************************)
\* the texts the model's runs are given: API URLs, the IDs the server issues,
\* expiration options, file paths, an output path, and a stored text that is
\* no envelope
Arg ==
    [ defaultApiUrl |-> <<104, 116, 116, 112, 115, 58, 47, 47, 97, 112, 105, 46, 115, 110, 97, 112, 112, 119, 100, 46, 105, 111, 47, 118, 49>>,  \* "https://api.snappwd.io/v1"
      customApiUrl |-> <<104, 116, 116, 112, 115, 58, 47, 47, 104, 46, 105, 111, 47, 97, 112, 105, 47, 118, 49, 47>>,  \* "https://h.io/api/v1/"
      customApiUrlUnderG |-> <<104, 116, 116, 112, 115, 58, 47, 47, 104, 46, 105, 111, 47, 103, 47, 97, 112, 105, 47, 118, 49>>,  \* "https://h.io/g/api/v1"
      textId       |-> <<115, 112, 45, 49>>,  \* "sp-1"
      fileId       |-> <<115, 112, 102, 45, 50>>,  \* "spf-2"
      defaultExpiration |-> <<51, 54, 48, 48>>,  \* "3600"
      defaultFileExpiration |-> <<56, 54, 52, 48, 48>>,  \* "86400"
      sixty        |-> <<54, 48>>,  \* "60"
      x            |-> <<120>>,  \* "x"
      out          |-> <<111, 117, 116>>,  \* "out"
      aTxt         |-> <<97, 46, 116, 120, 116>>,  \* "a.txt"
      dirB         |-> <<100, 105, 114, 47, 98>>,  \* "dir/b"
      dir          |-> <<100, 105, 114>>,  \* "dir"
      nope         |-> <<110, 111, 112, 101>>,  \* "nope"
      garbage      |-> <<65, 65, 65, 65>> ]  \* "AAAA"

ApiUrls == {Arg.defaultApiUrl, Arg.customApiUrl, Arg.customApiUrlUnderG}

ServerIds == {Arg.textId, Arg.fileId}

\* what the random source gives for a key: no, three and only zero bytes
CliKeyArrays == {a \in RandomKeyArrays : LeadingCount(a, 0) \in {0, 3, KeyBytes}}

CliIvs == {iv \in RandomIvs : iv[1] \in {1, 200}}

\* "a", and "a" after a byte order mark
CliTexts == {<<97>>, <<65279, 97>>}

CliFiles ==
    { [path |-> Arg.aTxt, exists |-> TRUE, readable |-> TRUE, data |-> <<255, 1>>],
      [path |-> Arg.dirB, exists |-> TRUE, readable |-> TRUE, data |-> <<>>],
      [path |-> Arg.dir, exists |-> TRUE, readable |-> FALSE, data |-> <<>>],
      [path |-> Arg.nope, exists |-> FALSE, readable |-> FALSE, data |-> <<>>] }

\* the keys of the links given to get and peek
ShareKeys == {generateEncryptionKey(a) :
                 a \in {b \in CliKeyArrays : LeadingCount(b, 0) < KeyBytes}}

\* fragments: a key, none, and "0O", which is not base-58
Fragments == ShareKeys \cup {<<>>, <<48, 79>>}

\* paths: /g/sp-1, /g/spf-2, /file/spf-2, /sp-1, /g/ and /x/y
SharePaths ==
    { Txt.slash \o Txt.g \o Txt.slash \o Arg.textId, Txt.slash \o Txt.g \o Txt.slash \o Arg.fileId,
      Txt.slash \o Txt.file \o Txt.slash \o Arg.fileId, Txt.slash \o Arg.textId,
      Txt.slash \o Txt.g \o Txt.slash, Txt.slash \o <<120>> \o Txt.slash \o <<121>> }

\* the URLs given to get and peek: the paths with each fragment, one without
\* a scheme, and one whose path carries the key as its ID
UserUrls ==
    {Txt.webUrl \o p \o (IF f = <<>> THEN <<>> ELSE Txt.hash \o f) :
        p \in SharePaths, f \in Fragments}
    \cup {Slice(Txt.webUrl, Len(Txt.https), Len(Txt.webUrl)) \o Txt.slash \o Txt.g \o Txt.slash
            \o Arg.textId \o Txt.hash \o k : k \in ShareKeys}
    \cup {Txt.webUrl \o Txt.slash \o Txt.g \o Txt.slash \o k \o Txt.hash \o k : k \in ShareKeys}

\* the server's answers
Answer(kind, shape) ==
    [kind |-> kind, shape |-> shape, id |-> <<>>, text |-> <<>>, iv |-> <<>>,
     name |-> <<>>, data |-> <<>>, createdAt |-> 0,
     ttl |-> [nan |-> TRUE, n |-> 0], hasMeta |-> FALSE]

\* the envelopes the server may hold: texts sealed under the links' keys, and
\* one that is no envelope
StoredSecrets ==
    {encryptData(p, k, iv).val : p \in CliTexts, k \in ShareKeys, iv \in CliIvs}
    \cup {Arg.garbage}

StoredFiles ==
    {[Answer("json", "file") EXCEPT
         !.iv = Base64Encode(iv), !.name = n,
         !.data = Base64Encode(encryptFileBuffer(b, k, iv).data)] :
       b \in {<<>>, <<255, 1>>}, k \in ShareKeys, iv \in {i \in CliIvs : i[1] = 1},
       n \in {Arg.aTxt, <<>>}}

Answers ==
    { Answer("network", ""), Answer("status", ""), Answer("badjson", ""),
      Answer("json", "null"), Answer("json", "empty"),
      [Answer("json", "fileNoMeta") EXCEPT !.data = Arg.garbage] }
    \cup {[Answer("json", "created") EXCEPT !.id = i] : i \in ServerIds}
    \cup {[Answer("json", "uploaded") EXCEPT !.id = i] : i \in ServerIds}
    \cup {[Answer("json", "secret") EXCEPT !.text = s] : s \in StoredSecrets}
    \cup StoredFiles
    \cup {[Answer("json", "peek") EXCEPT !.createdAt = 1700000000,
              !.ttl = [nan |-> FALSE, n |-> s], !.hasMeta = (s = 90061)] :
            s \in {-1, -2, 59, 90061}}

\* the URLs a get or peek may be given: any of the user's in a first run,
\* the one just printed after a put or put-file
GivenUrls ==
    IF cli.pc = "ready" THEN UserUrls
    ELSE IF cli.cmd \in {"put", "put-file"} /\ cli.exit = 0 /\ Len(cli.stdout) = 2
    THEN {cli.stdout[2].arg} ELSE {}

CliInit == codec = Idle /\ seal = Idle /\ cli = CliStart

CliPut ==
    /\ cli.pc = "ready"
    /\ \E apiUrl \in ApiUrls, text \in CliTexts,
          expirationOpt \in {Arg.defaultExpiration, Arg.sixty, Arg.x},
          array \in CliKeyArrays, iv \in CliIvs, resp \in Answers :
          cli' = put(apiUrl, text, expirationOpt, array, iv, resp)
    /\ UNCHANGED <<codec, seal>>

CliPutFile ==
    /\ cli.pc = "ready"
    /\ \E apiUrl \in ApiUrls, file \in CliFiles,
          expirationOpt \in {Arg.defaultFileExpiration, Arg.x},
          array \in CliKeyArrays, iv \in CliIvs, resp \in Answers :
          cli' = putFile(apiUrl, file, expirationOpt, array, iv, resp)
    /\ UNCHANGED <<codec, seal>>

CliPeek ==
    /\ \E apiUrl \in ApiUrls, urlStr \in GivenUrls, json \in BOOLEAN, resp \in Answers :
          cli' = peek(apiUrl, urlStr, json, resp)
    /\ UNCHANGED <<codec, seal>>

CliGet ==
    /\ \E apiUrl \in ApiUrls, urlStr \in GivenUrls, output \in {<<>>, Arg.out},
          resp \in Answers, disk \in {"ok", "denied", "full"} :
          cli' = get(apiUrl, urlStr, output, resp, disk)
    /\ UNCHANGED <<codec, seal>>

Next == CliPut \/ CliPutFile \/ CliPeek \/ CliGet

Spec == CliInit /\ [][Next]_vars

(***************************************************************************)
(* Claims about the CLI                                                    *)
(***************************************************************************)
\* the text after the first '#' of a URL string
FragmentOf(urlStr) == Slice(urlStr, IndexOfAny(urlStr, {35}, 1), Len(urlStr))

\* the URL string up to its first '#'
BeforeFragment(urlStr) == Slice(urlStr, 0, IndexOfAny(urlStr, {35}, 1) - 1)

\* the key of a run: the one put and put-file generate, the fragment of the
\* URL given to get and peek
RunKey == IF cli.cmd \in {"put", "put-file"} THEN cli.key ELSE FragmentOf(cli.arg)

\* every text a request carries: URL, header names and values, body values
WireTexts(req) ==
    {req.url}
    \cup {req.headers[i].name : i \in 1..Len(req.headers)}
    \cup {req.headers[i].value : i \in 1..Len(req.headers)}
    \cup {req.body[i].value : i \in 1..Len(req.body)}

\* the user's own input already carries the key outside the fragment
KeyGivenInTheClear ==
    \/ Contains(cli.apiUrl, RunKey)
    \/ cli.cmd \in {"get", "peek"} /\ Contains(BeforeFragment(cli.arg), RunKey)

KeySent ==
    \E i \in 1..Len(cli.requests) : \E w \in WireTexts(cli.requests[i]) : Contains(w, RunKey)

\* C3: in a run of put, put-file, peek or get, no request (URL, headers,
\* body) contains the base-58 key, unless the URL the user gave carries the
\* key outside its fragment; the URL that put and put-file print has the key
\* after its '#' and nowhere before it.
C3_KeyNeverSent ==
    (cli.pc = "done" /\ RunKey # <<>> /\ ~KeyGivenInTheClear)
      => /\ ~KeySent
         /\ \A i \in 1..Len(cli.stdout) :
               (cli.cmd \in {"put", "put-file"} /\ cli.stdout[i].fmt = "URL: ")
                 => /\ FragmentOf(cli.stdout[i].arg) = RunKey
                    /\ ~Contains(BeforeFragment(cli.stdout[i].arg), RunKey)

\* a get that fetched and printed a secret under a key of the link
C3_Witness ==
    /\ cli.pc = "done"
    /\ cli.cmd = "get"
    /\ cli.exit = 0
    /\ Len(cli.requests) = 1
    /\ Len(cli.stdout) = 1
    /\ Len(RunKey) > KeyBytes
    /\ ~KeyGivenInTheClear

\* a put-file that uploaded a file and printed its link
C3_WitnessPut ==
    /\ cli.pc = "done"
    /\ cli.cmd = "put-file"
    /\ cli.exit = 0
    /\ Len(cli.requests) = 1
    /\ Len(cli.stdout) = 2
    /\ Len(RunKey) > KeyBytes

\* the run wrote an error to stderr
ErrorReported == cli.pc = "done" /\ cli.stderr # <<>>

\* C11: a run of put, put-file, peek or get that reports an error prints one
\* error line and ends with a non-zero exit status.
C11_ErrorExitsNonZero ==
    ErrorReported => Len(cli.stderr) = 1 /\ cli.exit # 0

\* the URL of a request ends with "?peek=true"
IsPeekRequest(req) == req.method = "GET" /\ EndsWith(req.url, ApiTxt.peekQuery)

\* C13: every request a run of peek sends carries peek=true, for a text ID
\* as for an "spf-" file ID; none is a consuming GET.
C13_PeekNeverConsumes ==
    (cli.pc = "done" /\ cli.cmd = "peek")
      => \A i \in 1..Len(cli.requests) : IsPeekRequest(cli.requests[i])

\* a run of get that ended in an error
GetFailed == cli.pc = "done" /\ cli.cmd = "get" /\ cli.exit # 0

\* the trace has event a at i and no event b before it
Unpreceded(a, b) ==
    \E i \in 1..Len(cli.trace) :
        cli.trace[i] = a /\ \A j \in 1..(i - 1) : cli.trace[j] # b

\* C12: a run of get that ends in an error has written no output file and
\* printed no decrypted text; a file is written only after decryptFileBuffer
\* has succeeded.
C12_NoPartialOutput ==
    /\ GetFailed => cli.files = <<>> /\ cli.stdout = <<>>
    /\ (cli.pc = "done" /\ cli.cmd = "get") => ~Unpreceded("write", "decrypt")

\* the part of C12 about the order: in a run of get a file is written, and
\* a line printed, only after the decryption has succeeded
C12_OutputAfterDecrypt ==
    (cli.pc = "done" /\ cli.cmd = "get")
      => ~Unpreceded("write", "decrypt") /\ ~Unpreceded("stdout", "decrypt")

(***************************************************************************)
(* Encryptions in sequence under one key: encryptData and                  *)
(* encryptFileBuffer are called one after the other, each with the 12      *)
(* bytes crypto.getRandomValues gives it. A call is [op, drawn, nonce]:    *)
(* the bytes drawn and the nonce found in what the call returned.          *)
(***************************************************************************)
\* most calls under one key
MaxCalls == 3

\* a 16-byte and a 32-byte key
NonceKeys == {base58Encode(Repeat(255, 16)), base58Encode(Repeat(9, 32))}

NonceInit ==
    /\ seal \in {[pc |-> "calls", key |-> k, calls |-> <<>>] : k \in NonceKeys}
    /\ codec = Idle
    /\ cli = Idle

\* the nonce at the head of the envelope encryptData returns
NonceEncryptData ==
    /\ seal.pc = "calls"
    /\ Len(seal.calls) < MaxCalls
    /\ \E iv \in RandomIvs :
          seal' = [seal EXCEPT !.calls = Append(@,
                      [op |-> "encryptData", drawn |-> iv,
                       nonce |-> Slice(Base64Decode(encryptData(<<97>>, seal.key, iv).val),
                                       0, IvLength)])]
    /\ UNCHANGED <<codec, cli>>

\* the iv encryptFileBuffer returns
NonceEncryptFile ==
    /\ seal.pc = "calls"
    /\ Len(seal.calls) < MaxCalls
    /\ \E iv \in RandomIvs :
          seal' = [seal EXCEPT !.calls = Append(@,
                      [op |-> "encryptFileBuffer", drawn |-> iv,
                       nonce |-> encryptFileBuffer(<<255, 1>>, seal.key, iv).iv])]
    /\ UNCHANGED <<codec, cli>>

NonceNext == NonceEncryptData \/ NonceEncryptFile

SpecNonce == NonceInit /\ [][NonceNext]_vars

\* C14, as claimed: among the calls made under one key no nonce is used
\* twice.
C14_NonceNeverReused ==
    seal.pc = "calls" =>
        \A i, j \in 1..Len(seal.calls) :
            i # j => seal.calls[i].nonce # seal.calls[j].nonce

\* C14, amended: the nonce of a call is the 12 bytes the random source gave
\* to that call, so two calls share a nonce only when the random source gave
\* both the same bytes.
C14_NonceIsTheDraw ==
    seal.pc = "calls" =>
        /\ \A i \in 1..Len(seal.calls) :
              Len(seal.calls[i].nonce) = IvLength
                /\ seal.calls[i].nonce = seal.calls[i].drawn
        /\ \A i, j \in 1..Len(seal.calls) :
              seal.calls[i].nonce = seal.calls[j].nonce
                => seal.calls[i].drawn = seal.calls[j].drawn

\* three calls of both kinds under one key, with three different draws
C14_Witness ==
    /\ seal.pc = "calls"
    /\ Len(seal.calls) = 3
    /\ seal.calls[1].op = "encryptData"
    /\ seal.calls[2].op = "encryptFileBuffer"
    /\ seal.calls[3].op = "encryptData"
    /\ \A i, j \in 1..3 : i # j => seal.calls[i].nonce # seal.calls[j].nonce

\* the URL given to get parses, and its fragment is empty
KeyMissing == ParseUrl(cli.arg).err = "" /\ FragmentOf(cli.arg) = <<>>

\* the URL given to get parses, and its path has no ID
IdMissing ==
    ParseUrl(cli.arg).err = "" /\ getId(Split(ParseUrl(cli.arg).pathname, 47)) = <<>>

\* the run ended in the catch block with this message and nothing else done
FailedAtOnceWith(message) ==
    /\ cli.requests = <<>>
    /\ cli.stdout = <<>>
    /\ cli.files = <<>>
    /\ cli.exit = 1
    /\ cli.stderr = <<[fmt |-> "Error:", arg |-> message]>>
    /\ cli.trace = <<"stderr", "exit">>

C15_WitnessNoId ==
    /\ cli.pc = "done"
    /\ cli.cmd = "get"
    /\ IdMissing
    /\ ~KeyMissing
    /\ cli.requests = <<>>
    /\ cli.exit = 1

\* a put or put-file that printed a URL for an ID the server returned
Shared ==
    /\ cli.pc = "done"
    /\ cli.cmd \in {"put", "put-file"}
    /\ cli.exit = 0
    /\ cli.id \in ServerIds

\* the next run is a get of the URL printed, and it finds that ID and that
\* key and asks the server for that ID
GetsWhatWasShared ==
    /\ cli'.arg = cli.stdout[2].arg
    /\ cli'.id = cli.id
    /\ cli'.key = cli.key
    /\ Len(cli'.requests) = 1
    /\ cli'.requests[1].method = "GET"
    /\ EndsWith(cli'.requests[1].url, Txt.slash \o cli.id)

\* C16: for every API URL, also one whose path has a segment 'g', and every
\* ID the server returned, a get of the URL that put or put-file printed
\* finds the same ID and the same key, and requests that ID.
C16_PrintedUrlRoundTrip ==
    [][(Shared /\ cli'.cmd = "get") => GetsWhatWasShared]_vars

\* the same for the API URLs whose path has no segment 'g'
C16_RoundTripOutsideG ==
    [][(Shared /\ cli'.cmd = "get" /\ cli.apiUrl # Arg.customApiUrlUnderG)
          => GetsWhatWasShared]_vars

\* a get of a URL printed for an API under /g/ that took 'g' for the ID
C16_WrongId ==
    /\ cli.pc = "done"
    /\ cli.cmd = "get"
    /\ StartsWith(cli.arg, getWebUrl(Arg.customApiUrlUnderG))
    /\ cli.id = Txt.g
    /\ Len(cli.requests) = 1

====
